---- MODULE Spec2Model ----
(***************************************************************************)
(* Model of the per-conversation message aggregation and debounced         *)
(* dispatch engine of readlooong (src/src/bot.py, class TelegramBot).      *)
(*                                                                         *)
(* Execution model.  The bot runs on one asyncio event loop.  The          *)
(* Application is built with its defaults (bot.py:564), so inbound updates *)
(* are handled one after the other: handle_message for one update returns  *)
(* before the next update is taken.  The debounce timers are separate      *)
(* tasks (asyncio.create_task, bot.py:263) and interleave with the handler *)
(* at every await.  One action of this module is the code between two      *)
(* suspension points of one task.                                          *)
(*                                                                         *)
(* Time is counted in ticks, TicksPerSecond ticks to the second; a         *)
(* datetime.now() reading is the tick it falls in together with the number *)
(* of the update that read it, so that two readings are never equal.       *)
(***************************************************************************)
EXTENDS Integers, Sequences, FiniteSets, TLC

\* ------------------------------------------------------------- constants
Chats == {"c1", "c2"}
TimerIds == {"t1", "t2"}

MESSAGE_TIMEOUT == 1
MAX_BUFFER_SIZE == 400000
\* bot.py:237 writes the limit as the literal 10; the model scales it down.
MaxFragmentCount == 2

TicksPerSecond == 2
MaxTime == 3
MaxItems == 3

Delay == MESSAGE_TIMEOUT * TicksPerSecond

\* The inbound text messages without URL, as <<length of the cleaned text,
\* occurrence of the trigger keyword as typed, wire tag the text happens to
\* begin with>>; the text of 9 characters is "OCR: test".  The second
\* conversation receives plain short texts only.
TextInputs(c) ==
    IF c = "c1"
    THEN {<<5, "none", "">>, <<5, "!READ", "">>,
          <<MAX_BUFFER_SIZE + 1, "none", "">>, <<9, "none", "OCR: ">>}
    ELSE {<<5, "none", "">>}
\* Length of an ebook section title (ebook.py:100 "Section 1").
TitleLen == 9
\* The sections an ebook yields, by the length of their cleaned text: one
\* that reaches MAX_BUFFER_SIZE with its title, one that has it without.
EbookResults == {<<MAX_BUFFER_SIZE - (TitleLen + 2), MAX_BUFFER_SIZE>>}

\* ------------------------------------------------------------- fragments
\* A buffered message is a Python string; the model keeps what the code
\* reads of it: the wire tag it starts with, its length, the keyword
\* occurrence.  id is the per-conversation arrival number and src the path
\* that appended it (both are bookkeeping, the code keeps neither).
Frag(id, src, tag, len, kw) ==
    [id |-> id, src |-> src, tag |-> tag, len |-> len, kw |-> kw]

\* str.lower() on the keyword occurrence (bot.py:252).
Lower(s) == IF s = "!READ" THEN "!read" ELSE s

ContainsKeywordCS(f) == f.kw = "!read"
\* '!read' in str(content).lower()   (bot.py:252)
ContainsKeyword(f) == Lower(f.kw) = "!read"

ImmediateAtDelay(diff, f) == diff >= Delay \/ ContainsKeyword(f)
\* time_diff > MESSAGE_TIMEOUT or keyword   (bot.py:252)
Immediate(diff, f) == diff > Delay \/ ContainsKeyword(f)

\* len(content) > MAX_BUFFER_SIZE   (bot.py:244)
TooLong(len) == len > MAX_BUFFER_SIZE

\* Characters the dispatcher cuts off the front (bot.py:97-108).
StripLen(f) ==
    IF f.tag = "Link: " THEN 6
    ELSE IF f.tag = "OCR: " THEN 5
    ELSE IF f.tag = "Caption: " THEN 8
    ELSE 0

\* len(text) of the dispatcher's text (bot.py:110).
TextLen(f) == f.len - StripLen(f)

Ids(s) == [i \in 1..Len(s) |-> s[i].id]

RECURSIVE SumLen(_)
SumLen(s) == IF s = <<>> THEN 0 ELSE Head(s).len + SumLen(Tail(s))

\* ------------------------------------------------------------- state
VARIABLES
    now,                \* the clock, in ticks
    nitems,             \* inbound updates taken so far (bounded by MaxItems)
    message_buffer,     \* self.message_buffer[chat_id]
    last_message_time,  \* self.last_message_time[chat_id]; NoTime: no entry yet
    processing_locks,   \* self.processing_locks[chat_id]: holder and waiters
    delayed_task,       \* the delayed_task_<chat_id> attribute, "none" if unset or done
    timers,             \* the _delayed_process tasks
    h,                  \* the handle_message call in progress
    nextid,             \* bookkeeping: arrival number of the next fragment
    batches,            \* bookkeeping: the snapshots taken, as id sequences
    arrivals,           \* bookkeeping: how each handler-appended fragment arrived
    lastAccepted,       \* bookkeeping: the last inbound item appended a fragment through handle_message
    ev                  \* bookkeeping: the last step taken

vars == <<now, nitems, message_buffer, last_message_time, processing_locks,
          delayed_task, timers, h, nextid, batches, arrivals, lastAccepted, ev>>

NoRun == [snap |-> <<>>, idx |-> 0, phase |-> "none"]

\* A datetime.now() reading: the tick it falls in and the update that read
\* it.  Two handle_message calls never read the same value (the clock has
\* microsecond resolution and the calls run one after the other), so two
\* readings are equal only when they are the same reading.
Reading(tick, n) == [tick |-> tick, n |-> n]
NoTime == Reading(-1, 0)

FreeTimer == [pc |-> "free", captured |-> NoTime, wake |-> 0, run |-> NoRun]
IdleHandler ==
    [pc |-> "idle", chat |-> "none", ret |-> "none", diff |-> 0, t |-> NoTime,
     parts |-> <<>>, frag |-> 0, run |-> NoRun]
NoLock == [holder |-> "none", waiters |-> <<>>]
Event(type, chat, id) == [type |-> type, chat |-> chat, id |-> id, res |-> "none"]
\* A step of a dispatch run: res tells how the run left the message it was at.
RunEvent(type, chat, id, res) == [type |-> type, chat |-> chat, id |-> id, res |-> res]

Init ==
    /\ now = 0
    /\ nitems = 0
    /\ message_buffer = [c \in Chats |-> <<>>]
    /\ last_message_time = [c \in Chats |-> NoTime]
    /\ processing_locks = [c \in Chats |-> NoLock]
    /\ delayed_task = [c \in Chats |-> "none"]
    /\ timers = [c \in Chats |-> [k \in TimerIds |-> FreeTimer]]
    /\ h = IdleHandler
    /\ nextid = [c \in Chats |-> 1]
    /\ batches = [c \in Chats |-> <<>>]
    /\ arrivals = [c \in Chats |-> <<>>]
    /\ lastAccepted = [c \in Chats |-> FALSE]
    /\ ev = Event("init", "none", 0)

\* ------------------------------------------------------------- the lock
\* asyncio.Lock.acquire returns without suspending only when the lock is
\* unlocked and nobody waits for it.
CanAcquireAlways(lk) == TRUE
CanAcquire(lk) == lk.holder = "none" /\ lk.waiters = <<>>

ReleaseNever(lk) == lk
\* asyncio.Lock.release: the first waiter is woken and will hold the lock.
Release(lk) ==
    IF lk.waiters = <<>> THEN NoLock
    ELSE [holder |-> Head(lk.waiters), waiters |-> Tail(lk.waiters)]

RemoveWaiter(lk, tk) ==
    [lk EXCEPT !.waiters = SelectSeq(@, LAMBDA w : w # tk)]

Reverse(q) == [i \in 1..Len(q) |-> q[Len(q) + 1 - i]]
EnterReversed(tk, buf, lk) ==
    IF buf = <<>> THEN
        [pc |-> "ret", buf |-> buf, lock |-> lk, run |-> NoRun]
    ELSE IF lk.holder = "none" /\ lk.waiters = <<>> THEN
        [pc |-> "run", buf |-> <<>>, lock |-> [lk EXCEPT !.holder = tk],
         run |-> [snap |-> Reverse(buf), idx |-> 1, phase |-> "pre"]]
    ELSE
        [pc |-> "wait", buf |-> buf,
         lock |-> [lk EXCEPT !.waiters = Append(@, tk)], run |-> NoRun]

EnterUncleared(tk, buf, lk) ==
    IF buf = <<>> THEN
        [pc |-> "ret", buf |-> buf, lock |-> lk, run |-> NoRun]
    ELSE IF lk.holder = "none" /\ lk.waiters = <<>> THEN
        [pc |-> "run", buf |-> buf, lock |-> [lk EXCEPT !.holder = tk],
         run |-> [snap |-> buf, idx |-> 1, phase |-> "pre"]]
    ELSE
        [pc |-> "wait", buf |-> buf,
         lock |-> [lk EXCEPT !.waiters = Append(@, tk)], run |-> NoRun]

\* process_accumulated_messages from its call to its first suspension
\* (bot.py:83-89): return on an empty buffer; take the lock when it is free,
\* copy the buffer and clear it; otherwise queue for the lock.
Enter(tk, buf, lk) ==
    IF buf = <<>> THEN
        [pc |-> "ret", buf |-> buf, lock |-> lk, run |-> NoRun]
    ELSE IF CanAcquire(lk) THEN
        [pc |-> "run", buf |-> <<>>, lock |-> [lk EXCEPT !.holder = tk],
         run |-> [snap |-> buf, idx |-> 1, phase |-> "pre"]]
    ELSE
        [pc |-> "wait", buf |-> buf,
         lock |-> [lk EXCEPT !.waiters = Append(@, tk)], run |-> NoRun]

\* The batch record of a snapshot: an empty snapshot is no batch.
Recorded(bs, snap) == IF snap = <<>> THEN bs ELSE Append(bs, Ids(snap))

AfterItemAbort(run) == [run EXCEPT !.phase = "end"]
\* The for loop of bot.py:91 moving to its next message, or leaving.
AfterItem(run) ==
    IF run.idx < Len(run.snap)
    THEN [run EXCEPT !.idx = @ + 1, !.phase = "pre"]
    ELSE [run EXCEPT !.phase = "end"]

\* ------------------------------------------------------------- timers
\* self.last_message_time[chat_id] == current_batch_time   (bot.py:387)
TimerValidAlways(c, tm) == TRUE
TimerValid(c, tm) == last_message_time[c] = tm.captured

\* await asyncio.sleep(MESSAGE_TIMEOUT) has returned   (bot.py:386)
TimerDueAlways(tm) == TRUE
TimerDue(tm) == now >= tm.wake

HasFree(tms) == \E k \in TimerIds : tms[k].pc = "free"
FreeSlot(tms) == IF tms["t1"].pc = "free" THEN "t1" ELSE "t2"

\* task.cancel() on the task the delayed_task attribute names (bot.py:257-260).
\* CancelledError is raised at the await the task is suspended at: it ends a
\* task that sleeps or waits for the lock; in a dispatch it is caught only
\* inside the conversion loop (bot.py:162), elsewhere it leaves the run
\* (bot.py:193 and 197 catch Exception, which CancelledError is not).
CancelDelayed(c) ==
    LET tk == delayed_task[c]
        tms == timers[c]
        lk == processing_locks[c]
    IN  IF tk = "none" THEN [timers |-> tms, lock |-> lk]
        ELSE IF tms[tk].pc = "sleep" THEN
            [timers |-> [tms EXCEPT ![tk] = FreeTimer], lock |-> lk]
        ELSE IF tms[tk].pc = "wait" THEN
            [timers |-> [tms EXCEPT ![tk] = FreeTimer],
             lock |-> IF lk.holder = tk THEN Release(lk) ELSE RemoveWaiter(lk, tk)]
        ELSE IF tms[tk].pc = "run" /\ tms[tk].run.phase = "pre" THEN
            [timers |-> [tms EXCEPT ![tk] = FreeTimer], lock |-> Release(lk)]
        ELSE IF tms[tk].pc = "run" /\ tms[tk].run.phase = "conv" THEN
            [timers |-> [tms EXCEPT ![tk].run.phase = "convx"], lock |-> lk]
        ELSE [timers |-> tms, lock |-> lk]

\* The handler is suspended at an await (or idle): other tasks may run.
AtAwait == h.pc \notin {"eb_loop", "eb_appended"}

\* ------------------------------------------------------------- handle_message
\* bot.py:228-230
\* current_time = datetime.now()   (bot.py:228)
CurrentTime == Reading(now, nitems + 1)

\* (current_time - self.last_message_time[chat_id]).total_seconds(); the
\* defaultdict makes a missing entry a reading taken just before.
TimeDiff(c) ==
    IF last_message_time[c] = NoTime THEN 0 ELSE now - last_message_time[c].tick

\* len(self.message_buffer[chat_id]) >= 10   (bot.py:237)
BufferFull(c) == Len(message_buffer[c]) >= MaxFragmentCount

\* any(not msg.startswith('OCR: ') for msg in buffer)   (bot.py:356-359)
HasTextInBuffer(c) ==
    \E i \in 1..Len(message_buffer[c]) : message_buffer[c][i].tag # "OCR: "

\* Some task is inside a dispatch run of conversation c.
Dispatching(c) ==
    \/ h.chat = c /\ h.pc = "run"
    \/ \E k \in TimerIds : timers[c][k].pc = "run"

\* Bookkeeping of one append: the path, the time since the previous
\* message, whether the previous inbound item of the conversation was an
\* accepted fragment too, the keyword as typed, and whether a dispatch run
\* of the conversation was in progress.
Arrival(c, f, diff, follows) ==
    [src |-> f.src, diff |-> diff, follows |-> follows, kw |-> f.kw,
     during |-> Dispatching(c)]

\* bot.py:249-264: append, then dispatch at once or (re)schedule the timer.
AcceptFragment(c, f, diff, t) ==
    LET buf == Append(message_buffer[c], f) IN
    /\ nextid' = [nextid EXCEPT ![c] = @ + 1]
    /\ arrivals' = [arrivals EXCEPT ![c] = Append(@, Arrival(c, f, diff, lastAccepted[c]))]
    /\ lastAccepted' = [lastAccepted EXCEPT ![c] = TRUE]
    /\ IF Immediate(diff, f) THEN
           LET e == Enter("h", buf, processing_locks[c]) IN
           /\ message_buffer' = [message_buffer EXCEPT ![c] = e.buf]
           /\ processing_locks' = [processing_locks EXCEPT ![c] = e.lock]
           /\ batches' = [batches EXCEPT ![c] = Recorded(@, e.run.snap)]
           /\ h' = [IdleHandler EXCEPT !.pc = e.pc, !.chat = c, !.ret = "msg",
                                       !.frag = f.id, !.run = e.run]
           /\ ev' = Event("accept_now", c, f.id)
           /\ UNCHANGED <<timers, delayed_task>>
       ELSE
           LET cn == CancelDelayed(c)
               k == FreeSlot(cn.timers)
           IN
           /\ HasFree(cn.timers)
           /\ timers' = [timers EXCEPT ![c] =
                  [cn.timers EXCEPT ![k] =
                      [pc |-> "sleep", captured |-> t, wake |-> now + Delay,
                       run |-> NoRun]]]
           /\ delayed_task' = [delayed_task EXCEPT ![c] = k]
           /\ processing_locks' = [processing_locks EXCEPT ![c] = cn.lock]
           /\ message_buffer' = [message_buffer EXCEPT ![c] = buf]
           /\ h' = IdleHandler
           /\ ev' = Event("accept_timer", c, f.id)
           /\ UNCHANGED batches

\* A handle_message call starts: the next update is taken only when the
\* previous handler has returned.
Begin ==
    /\ h.pc = "idle"
    /\ nitems < MaxItems
    /\ nitems' = nitems + 1
    /\ UNCHANGED now

\* self.last_message_time[chat_id] = current_time   (bot.py:230)
Stamp(c) == last_message_time' = [last_message_time EXCEPT ![c] = CurrentTime]

NoAppend(c) ==
    /\ lastAccepted' = [lastAccepted EXCEPT ![c] = FALSE]
    /\ UNCHANGED <<message_buffer, processing_locks, timers, delayed_task,
                   nextid, batches, arrivals>>

\* Nothing appended yet: the handler is suspended and may still append.
Pending ==
    UNCHANGED <<message_buffer, processing_locks, timers, delayed_task,
                nextid, batches, arrivals, lastAccepted>>

\* bot.py:237-238: the buffer is full; suspended in the reply.
LimitPath(c) ==
    /\ h' = [IdleHandler EXCEPT !.pc = "limit", !.chat = c, !.ret = "limit"]
    /\ ev' = Event("limit", c, 0)
    /\ NoAppend(c)

HandleTextUnstamped(c, len, kw, starts) ==
    /\ Begin
    /\ UNCHANGED last_message_time
    /\ IF BufferFull(c) THEN LimitPath(c)
       ELSE IF TooLong(len) THEN
           /\ h' = IdleHandler
           /\ ev' = Event("rejected", c, 0)
           /\ NoAppend(c)
       ELSE
           LET f == Frag(nextid[c], "text", starts, len, kw)
               k == FreeSlot(timers[c])
           IN
           /\ HasFree(timers[c])
           /\ nextid' = [nextid EXCEPT ![c] = @ + 1]
           /\ arrivals' = [arrivals EXCEPT ![c] =
                              Append(@, Arrival(c, f, TimeDiff(c), lastAccepted[c]))]
           /\ lastAccepted' = [lastAccepted EXCEPT ![c] = TRUE]
           /\ timers' = [timers EXCEPT ![c][k] =
                            [pc |-> "sleep", captured |-> last_message_time[c],
                             wake |-> now + Delay, run |-> NoRun]]
           /\ delayed_task' = [delayed_task EXCEPT ![c] = k]
           /\ message_buffer' = [message_buffer EXCEPT ![c] = Append(@, f)]
           /\ h' = IdleHandler
           /\ ev' = Event("accept_timer", c, f.id)
           /\ UNCHANGED <<batches, processing_locks>>

\* A text message without URL (bot.py:201-264, 344-346).
HandleText(c, len, kw, starts) ==
    /\ Begin
    /\ Stamp(c)
    /\ IF BufferFull(c) THEN LimitPath(c)
       ELSE IF TooLong(len) THEN
           /\ h' = IdleHandler
           /\ ev' = Event("rejected", c, 0)
           /\ NoAppend(c)
       ELSE AcceptFragment(c, Frag(nextid[c], "text", starts, len, kw), TimeDiff(c), CurrentTime)

\* A group message that does not mention the bot (bot.py:233-234).
HandleUnaddressed(c) ==
    /\ Begin
    /\ Stamp(c)
    /\ h' = IdleHandler
    /\ ev' = Event("unaddressed", c, 0)
    /\ NoAppend(c)

\* A text message with a URL, of a video platform or not.  The first thing
\* done with the URL is self.link_processor.video_processor.is_supported_url
\* (bot.py:297); LinkProcessor has no attribute video_processor
\* (link.py:8-11), the AttributeError reaches bot.py:266 and the handler is
\* suspended in the reply of bot.py:268.
HandleUrl(c, video) ==
    /\ Begin
    /\ Stamp(c)
    /\ IF BufferFull(c) THEN LimitPath(c)
       ELSE /\ h' = [IdleHandler EXCEPT !.pc = "err", !.chat = c,
                                        !.ret = IF video THEN "video" ELSE "link"]
            /\ ev' = Event("raised", c, 0)
            /\ NoAppend(c)

\* The reply of bot.py:268 raises as well: the exception leaves
\* handle_message before the clear of bot.py:269.
ErrEscape ==
    /\ h.pc = "err"
    /\ h' = IdleHandler
    /\ ev' = Event("error_escaped", h.chat, 0)
    /\ UNCHANGED <<now, nitems, message_buffer, last_message_time, processing_locks,
                   delayed_task, timers, nextid, batches, arrivals, lastAccepted>>

ErrClearAll ==
    /\ h.pc = "err"
    /\ message_buffer' = [c \in Chats |-> <<>>]
    /\ h' = IdleHandler
    /\ ev' = Event("error_clear", h.chat, 0)
    /\ UNCHANGED <<now, nitems, last_message_time, processing_locks, delayed_task,
                   timers, nextid, batches, arrivals, lastAccepted>>

\* self.message_buffer[chat_id].clear()   (bot.py:269)
ErrClear ==
    /\ h.pc = "err"
    /\ message_buffer' = [message_buffer EXCEPT ![h.chat] = <<>>]
    /\ h' = IdleHandler
    /\ ev' = Event("error_clear", h.chat, 0)
    /\ UNCHANGED <<now, nitems, last_message_time, processing_locks, delayed_task,
                   timers, nextid, batches, arrivals, lastAccepted>>

\* A photo without caption (bot.py:348-367): suppressed when the buffer
\* holds a message that does not start with "OCR: ", else suspended in the
\* reply and the download that precede OCR.
HandlePhoto(c) ==
    /\ Begin
    /\ Stamp(c)
    /\ IF BufferFull(c) THEN LimitPath(c)
       ELSE IF HasTextInBuffer(c) THEN
           /\ h' = IdleHandler
           /\ ev' = Event("suppressed", c, 0)
           /\ NoAppend(c)
       ELSE
           /\ h' = [IdleHandler EXCEPT !.pc = "ocr", !.chat = c,
                                       !.diff = TimeDiff(c), !.t = CurrentTime]
           /\ ev' = Event("ocr", c, 0)
           /\ Pending

\* Lengths of the cleaned OCR text; 0: no text found.
OcrLens == {0, 5}

\* bot.py:367-370 and 243-264: the OCR result comes back.
OcrDone(n) ==
    /\ h.pc = "ocr"
    /\ UNCHANGED <<now, nitems, last_message_time>>
    /\ IF n = 0 \/ TooLong(5 + n) THEN
           /\ h' = IdleHandler
           /\ ev' = Event(IF n = 0 THEN "ocr_empty" ELSE "rejected", h.chat, 0)
           /\ NoAppend(h.chat)
       ELSE AcceptFragment(h.chat, Frag(nextid[h.chat], "ocr", "OCR: ", 5 + n, "none"),
                           h.diff, h.t)

\* The reply or the download raises (bot.py:365-366 to 266-268).
OcrRaise ==
    /\ h.pc = "ocr"
    /\ h' = [IdleHandler EXCEPT !.pc = "err", !.chat = h.chat]
    /\ ev' = Event("raised", h.chat, 0)
    /\ UNCHANGED <<now, nitems, last_message_time>>
    /\ NoAppend(h.chat)

\* ------------------------------------------------------------- the dispatch run
TaskRun(c, tk) == IF tk = "h" THEN h.run ELSE timers[c][tk].run
TaskPc(c, tk) ==
    IF tk = "h" THEN (IF h.chat = c THEN h.pc ELSE "none") ELSE timers[c][tk].pc
Tasks == {"h"} \cup TimerIds

\* process_accumulated_messages returns (bot.py:86 releases the lock) and
\* its caller goes on: a timer task ends; handle_message returns;
\* _handle_ebook clears the buffer (bot.py:443, 451) and moves to the
\* progress reply of its last part or to its next part.  bufc is the
\* buffer as the run leaves it.
Finish(c, tk, bufc) ==
    /\ processing_locks' = [processing_locks EXCEPT ![c] = Release(@)]
    /\ IF tk = "h" THEN
           /\ h' = IF h.ret = "ebook"
                   THEN [h EXCEPT !.pc = IF h.parts = <<>> THEN "eb_progress" ELSE "eb_loop",
                                  !.run = NoRun]
                   ELSE IdleHandler
           /\ message_buffer' = [message_buffer EXCEPT ![c] =
                                    IF h.ret = "ebook" THEN <<>> ELSE bufc]
           /\ UNCHANGED <<timers, delayed_task>>
       ELSE
           /\ timers' = [timers EXCEPT ![c][tk] = FreeTimer]
           /\ delayed_task' = [delayed_task EXCEPT ![c] = IF @ = tk THEN "none" ELSE @]
           /\ message_buffer' = [message_buffer EXCEPT ![c] = bufc]
           /\ UNCHANGED h

\* The run goes on with run record r, or returns when r is past the last message.
Advance(c, tk, r) ==
    IF r.phase = "end" THEN Finish(c, tk, message_buffer[c])
    ELSE /\ IF tk = "h"
            THEN h' = [h EXCEPT !.run = r] /\ UNCHANGED timers
            ELSE timers' = [timers EXCEPT ![c][tk].run = r] /\ UNCHANGED h
         /\ UNCHANGED <<message_buffer, processing_locks, delayed_task>>

DoneType(c, tk, r) ==
    IF r.phase # "end" THEN "run_next"
    ELSE IF tk # "h" THEN "timer_done"
    ELSE IF h.ret = "limit" THEN "limit_done"
    ELSE IF h.ret = "ebook" THEN "part_done"
    ELSE "done"

DoneId(tk) == IF tk = "h" THEN h.frag ELSE 0

RunFrame == UNCHANGED <<now, nitems, last_message_time, nextid, batches,
                        arrivals, lastAccepted>>

\* bot.py:110-112: the stripped text is too long; after the reply the loop continues.
RunSkip(c, tk) ==
    /\ AtAwait
    /\ TaskPc(c, tk) = "run"
    /\ TaskRun(c, tk).phase = "pre"
    /\ TextLen(TaskRun(c, tk).snap[TaskRun(c, tk).idx]) > MAX_BUFFER_SIZE
    /\ LET r == AfterItem(TaskRun(c, tk)) IN
       /\ Advance(c, tk, r)
       /\ ev' = RunEvent(IF r.phase = "end" THEN DoneType(c, tk, r) ELSE "run_skip", c,
                         DoneId(tk), "too_long")
    /\ RunFrame

\* convert_to_audio(text, progress) of the message the loop is at
\* (bot.py:133-135): the fragments the text is made of and its length.
ConvInput(run) ==
    [ids |-> <<run.snap[run.idx].id>>, len |-> TextLen(run.snap[run.idx])]

\* bot.py:114-129: preview and status replies sent, the conversion task is created.
RunPre(c, tk) ==
    /\ AtAwait
    /\ TaskPc(c, tk) = "run"
    /\ TaskRun(c, tk).phase = "pre"
    /\ TextLen(TaskRun(c, tk).snap[TaskRun(c, tk).idx]) <= MAX_BUFFER_SIZE
    /\ Advance(c, tk, [TaskRun(c, tk) EXCEPT !.phase = "conv"])
    /\ ev' = Event("run_conv", c, TaskRun(c, tk).snap[TaskRun(c, tk).idx].id)
    /\ RunFrame

\* A reply before the conversion raises: caught at bot.py:193, next message.
\* (Taken for the first conversation only.)
RunErr(c, tk) ==
    /\ AtAwait
    /\ TaskPc(c, tk) = "run"
    /\ TaskRun(c, tk).phase = "pre"
    /\ LET r == AfterItem(TaskRun(c, tk)) IN
       /\ Advance(c, tk, r)
       /\ ev' = RunEvent(IF r.phase = "end" THEN DoneType(c, tk, r) ELSE "run_err", c,
                         DoneId(tk), "reply_raised")
    /\ RunFrame

\* How a conversion ends: with audio (bot.py:170-174), with audio after
\* more than MAX_PROCESSING_TIME seconds (the loop of bot.py:138-167 runs until
\* the task is done and compares the elapsed time with nothing), or failing:
\* with success False (bot.py:181) or raising (bot.py:183-185).  The
\* conversions of the second conversation, like its inputs, are the plain
\* case.
ConvOutcomes(c) == IF c = "c1" THEN {"ok", "ok_late", "failed"} ELSE {"ok"}

\* bot.py:133-191: the conversion task is done and its result is sent (or
\* its failure reported); a cancellation caught at bot.py:162 changes
\* nothing of this.  Then the next message, or the end of the run.
RunConv(c, tk, res) ==
    /\ AtAwait
    /\ TaskPc(c, tk) = "run"
    /\ TaskRun(c, tk).phase \in {"conv", "convx"}
    /\ LET r == AfterItem(TaskRun(c, tk)) IN
       /\ Advance(c, tk, r)
       /\ ev' = RunEvent(DoneType(c, tk, r), c, DoneId(tk), res)
    /\ RunFrame

GrantedUnchecked(c, tk) ==
    /\ AtAwait
    /\ TaskPc(c, tk) = "wait"
    /\ processing_locks[c].holder = tk
    /\ LET snap == message_buffer[c]
           r == [snap |-> snap, idx |-> 1, phase |-> IF snap = <<>> THEN "end" ELSE "pre"]
       IN
       /\ batches' = [batches EXCEPT ![c] = Append(@, Ids(snap))]
       /\ message_buffer' = [message_buffer EXCEPT ![c] = <<>>]
       /\ IF tk = "h"
          THEN /\ h' = [h EXCEPT !.pc = "run",
                                 !.run = r]
               /\ UNCHANGED timers
          ELSE /\ timers' = [timers EXCEPT ![c][tk].pc = "run",
                                ![c][tk].run = r]
               /\ UNCHANGED h
       /\ ev' = Event("granted", c, 0)
       /\ UNCHANGED <<processing_locks, delayed_task>>
    /\ UNCHANGED <<now, nitems, last_message_time, nextid, arrivals, lastAccepted>>

\* A task that queued for the lock is woken holding it (bot.py:86) and
\* copies and clears the buffer as it is now (bot.py:88-89).
Granted(c, tk) ==
    /\ AtAwait
    /\ TaskPc(c, tk) = "wait"
    /\ processing_locks[c].holder = tk
    /\ LET snap == message_buffer[c] IN
       /\ batches' = [batches EXCEPT ![c] = Recorded(@, snap)]
       /\ IF snap = <<>> THEN
              /\ Finish(c, tk, <<>>)
              /\ ev' = Event(DoneType(c, tk, [phase |-> "end"]), c, DoneId(tk))
          ELSE
              /\ message_buffer' = [message_buffer EXCEPT ![c] = <<>>]
              /\ IF tk = "h"
                 THEN /\ h' = [h EXCEPT !.pc = "run",
                                        !.run = [snap |-> snap, idx |-> 1, phase |-> "pre"]]
                      /\ UNCHANGED timers
                 ELSE /\ timers' = [timers EXCEPT ![c][tk].pc = "run",
                                       ![c][tk].run = [snap |-> snap, idx |-> 1, phase |-> "pre"]]
                      /\ UNCHANGED h
              /\ ev' = Event("granted", c, 0)
              /\ UNCHANGED <<processing_locks, delayed_task>>
    /\ UNCHANGED <<now, nitems, last_message_time, nextid, arrivals, lastAccepted>>

\* bot.py:239: the count-limit path dispatches the buffer and returns.
LimitDispatch ==
    /\ h.pc = "limit"
    /\ LET c == h.chat
           e == Enter("h", message_buffer[c], processing_locks[c])
       IN
       /\ message_buffer' = [message_buffer EXCEPT ![c] = e.buf]
       /\ processing_locks' = [processing_locks EXCEPT ![c] = e.lock]
       /\ batches' = [batches EXCEPT ![c] = Recorded(@, e.run.snap)]
       /\ h' = IF e.pc = "ret" THEN IdleHandler ELSE [h EXCEPT !.pc = e.pc, !.run = e.run]
       /\ ev' = Event(IF e.pc = "ret" THEN "limit_done" ELSE "limit_enter", c, 0)
    /\ UNCHANGED <<now, nitems, last_message_time, delayed_task, timers, nextid,
                   arrivals, lastAccepted>>

\* ------------------------------------------------------------- _delayed_process
\* bot.py:385-388: the sleep is over; a timer whose captured time is no
\* longer the conversation's last message time ends, the other dispatches.
TimerFire(c, k) ==
    /\ AtAwait
    /\ timers[c][k].pc = "sleep"
    /\ TimerDue(timers[c][k])
    /\ IF ~TimerValid(c, timers[c][k]) THEN
           /\ timers' = [timers EXCEPT ![c][k] = FreeTimer]
           /\ delayed_task' = [delayed_task EXCEPT ![c] = IF @ = k THEN "none" ELSE @]
           /\ ev' = Event("timer_stale", c, 0)
           /\ UNCHANGED <<message_buffer, processing_locks, batches>>
       ELSE
           LET e == Enter(k, message_buffer[c], processing_locks[c]) IN
           /\ message_buffer' = [message_buffer EXCEPT ![c] = e.buf]
           /\ processing_locks' = [processing_locks EXCEPT ![c] = e.lock]
           /\ batches' = [batches EXCEPT ![c] = Recorded(@, e.run.snap)]
           /\ timers' = [timers EXCEPT ![c][k] =
                            IF e.pc = "ret" THEN FreeTimer
                            ELSE [@ EXCEPT !.pc = e.pc, !.run = e.run]]
           /\ delayed_task' = [delayed_task EXCEPT ![c] =
                                  IF e.pc = "ret" /\ @ = k THEN "none" ELSE @]
           /\ ev' = Event(IF e.pc = "ret" THEN "timer_empty"
                          ELSE IF e.pc = "run" THEN "timer_run" ELSE "timer_wait", c, 0)
    /\ UNCHANGED <<now, nitems, last_message_time, h, nextid, arrivals, lastAccepted>>

\* ------------------------------------------------------------- _handle_ebook
\* bot.py:221-225, 403-417: an ebook document; suspended in the download
\* and the extraction.  last_message_time is not touched on this path.
HandleEbook(c, secs) ==
    /\ Begin
    /\ h' = [IdleHandler EXCEPT !.pc = "eb_fetch", !.chat = c, !.ret = "ebook",
                                !.parts = secs]
    /\ ev' = Event("ebook", c, 0)
    /\ NoAppend(c)
    /\ UNCHANGED last_message_time

\* How the download and the extraction end: with the sections, with
\* success False (bot.py:465), or raising (caught at bot.py:469-471).
EbookOutcomes == {"parts", "failed", "raised"}

\* bot.py:403-417, 465-471: the sections are there and the loop starts, or
\* the failure or the error is reported and the handler returns.
EbookFetched(res) ==
    /\ h.pc = "eb_fetch"
    /\ h' = IF res = "parts" THEN [h EXCEPT !.pc = "eb_loop"] ELSE IdleHandler
    /\ ev' = Event(IF res = "parts" THEN "ebook_parts"
                   ELSE IF res = "failed" THEN "ebook_failed" ELSE "ebook_raised", h.chat, 0)
    /\ UNCHANGED <<now, nitems, last_message_time, message_buffer, processing_locks,
                   timers, delayed_task, nextid, batches, arrivals, lastAccepted>>

\* bot.py:419-423, 444-449: the next part is within MAX_BUFFER_SIZE and is
\* appended under its title, title + "\n\n" + text.
EbookAppend ==
    /\ h.pc = "eb_loop"
    /\ ~TooLong(Head(h.parts))
    /\ LET c == h.chat
           f == Frag(nextid[c], "part", "", TitleLen + 2 + Head(h.parts), "none")
       IN
       /\ message_buffer' = [message_buffer EXCEPT ![c] = Append(@, f)]
       /\ nextid' = [nextid EXCEPT ![c] = @ + 1]
       /\ arrivals' = [arrivals EXCEPT ![c] = Append(@, Arrival(c, f, 0, FALSE))]
       /\ h' = [h EXCEPT !.pc = "eb_appended", !.parts = Tail(@)]
       /\ ev' = Event("part", c, f.id)
    /\ UNCHANGED <<now, nitems, last_message_time, processing_locks, timers,
                   delayed_task, batches, lastAccepted>>

\* bot.py:450: the part is dispatched.
EbookEnter ==
    /\ h.pc = "eb_appended"
    /\ LET c == h.chat
           e == Enter("h", message_buffer[c], processing_locks[c])
       IN
       /\ message_buffer' = [message_buffer EXCEPT ![c] = e.buf]
       /\ processing_locks' = [processing_locks EXCEPT ![c] = e.lock]
       /\ batches' = [batches EXCEPT ![c] = Recorded(@, e.run.snap)]
       /\ h' = [h EXCEPT !.pc = e.pc, !.run = e.run]
       /\ ev' = Event("part_enter", c, 0)
    /\ UNCHANGED <<now, nitems, last_message_time, delayed_task, timers, nextid,
                   arrivals, lastAccepted>>

\* bot.py:454-467: the progress reply of the last part is sent; the handler returns.
EbookProgress ==
    /\ h.pc = "eb_progress"
    /\ h' = IdleHandler
    /\ ev' = Event("ebook_done", h.chat, 0)
    /\ UNCHANGED <<now, nitems, last_message_time, message_buffer, processing_locks,
                   timers, delayed_task, nextid, batches, arrivals, lastAccepted>>

\* ------------------------------------------------------------- time
Tick ==
    /\ AtAwait
    /\ now < MaxTime
    /\ now' = now + 1
    /\ ev' = Event("tick", "none", 0)
    /\ UNCHANGED <<nitems, message_buffer, last_message_time, processing_locks,
                   delayed_task, timers, h, nextid, batches, arrivals, lastAccepted>>

Next ==
    \/ \E c \in Chats : \E x \in TextInputs(c) : HandleText(c, x[1], x[2], x[3])
    \/ HandleUnaddressed("c1")
    \/ \E video \in BOOLEAN : HandleUrl("c1", video)
    \/ HandlePhoto("c1")
    \/ \E n \in OcrLens : OcrDone(n)
    \/ OcrRaise
    \/ ErrClear
    \/ ErrEscape
    \/ LimitDispatch
    \/ \E secs \in EbookResults : HandleEbook("c1", secs)
    \/ \E res \in EbookOutcomes : EbookFetched(res)
    \/ EbookAppend
    \/ EbookEnter
    \/ EbookProgress
    \/ \E c \in Chats, tk \in Tasks : RunSkip(c, tk)
    \/ \E c \in Chats, tk \in Tasks : RunPre(c, tk)
    \/ \E tk \in Tasks : RunErr("c1", tk)
    \/ \E c \in Chats, tk \in Tasks : \E res \in ConvOutcomes(c) : RunConv(c, tk, res)
    \/ \E c \in Chats, tk \in Tasks : Granted(c, tk)
    \/ \E c \in Chats, k \in TimerIds : TimerFire(c, k)
    \/ Tick

Spec == Init /\ [][Next]_vars

\* The event loop runs every task that is ready: a dispatch run whose reply
\* or conversion has returned goes on, a task woken with the lock takes its
\* snapshot, and _handle_ebook, which does not suspend between a part's
\* append and its dispatch, goes on as well.  (Conversions and replies are
\* taken to return.)
RunStep(c, tk) ==
    \/ RunSkip(c, tk)
    \/ RunPre(c, tk)
    \/ \E res \in ConvOutcomes(c) : RunConv(c, tk, res)
    \/ Granted(c, tk)

FairSpec ==
    /\ Init /\ [][Next]_vars
    /\ \A c \in Chats : \A tk \in Tasks : WF_vars(RunStep(c, tk))
    /\ WF_vars(EbookAppend \/ EbookEnter)

\* ------------------------------------------------------------- properties
Range(q) == {q[i] : i \in 1..Len(q)}

\* The batch (its index in batches[c]) that holds the fragment, 0 if none does.
BatchOf(c, id) ==
    IF \E b \in 1..Len(batches[c]) : id \in Range(batches[c][b])
    THEN CHOOSE b \in 1..Len(batches[c]) : id \in Range(batches[c][b])
    ELSE 0

InBuffer(c, id) == \E i \in 1..Len(message_buffer[c]) : message_buffer[c][i].id = id

Running(c) == {tk \in Tasks : TaskPc(c, tk) = "run"}

\* Something is under way that will dispatch the buffer of c, or may still
\* decide to: a sleeping timer that would pass the staleness check, a task
\* queued for the lock, a dispatch run, or the handler working on c.
Covered(c) ==
    \/ \E k \in TimerIds : timers[c][k].pc = "sleep" /\ TimerValid(c, timers[c][k])
    \/ \E tk \in Tasks : TaskPc(c, tk) \in {"wait", "run"}
    \/ h.chat = c /\ h.pc # "idle"

\* C1: at most one dispatch run per conversation is between its snapshot
\* and the end of its last conversion.
C1_SingleFlight == \A c \in Chats : Cardinality(Running(c)) <= 1

\* C1 witness: a run is in progress while another task queues for the same lock.
C1_Witness ==
    \E c \in Chats : Running(c) # {} /\ \E tk \in Tasks : TaskPc(c, tk) = "wait"

\* C2 (as claimed): a fragment appended while a dispatch of its conversation
\* was in progress is kept until a later batch takes it: while it waits in
\* the buffer, something that will dispatch it is under way.
C2_DeferredFragmentDispatched ==
    \A c \in Chats : \A i \in 1..Len(arrivals[c]) :
        (arrivals[c][i].during /\ InBuffer(c, i)) => Covered(c)

\* Fragment i of c continues a sequence: it was appended through
\* handle_message right after fragment i-1, less than the debounce delay
\* after it, and neither holds the trigger keyword.
Linked(c, i) ==
    /\ arrivals[c][i].src # "part" /\ arrivals[c][i - 1].src # "part"
    /\ arrivals[c][i].follows
    /\ arrivals[c][i].diff < Delay
    /\ arrivals[c][i].kw = "none" /\ arrivals[c][i - 1].kw = "none"

SameBatch(c, i) == BatchOf(c, i - 1) # 0 => BatchOf(c, i) = BatchOf(c, i - 1)

InArrivalOrder(c) ==
    \A b \in 1..Len(batches[c]) : \A i, j \in 1..Len(batches[c][b]) :
        i < j => batches[c][b][i] < batches[c][b][j]

\* Nothing is left to run for c: no handler, no timer task.
Quiescent(c) == h.pc = "idle" /\ \A k \in TimerIds : timers[c][k].pc = "free"

C4_StaleTimerNoDispatch ==
    [][\A c \in Chats : \A k \in TimerIds :
          (timers[c][k].pc = "sleep" /\ last_message_time[c] # timers[c][k].captured)
              => timers'[c][k].pc \in {"sleep", "free"}]_vars

\* C4 witness: a stale timer fired and ended while fragments were waiting.
C4_Witness ==
    ev.type = "timer_stale" /\ message_buffer[ev.chat] # <<>>

\* C5 (as claimed): a non-empty buffer always has a valid pending timer, a
\* dispatch in progress or pending, or a handler still working on it.
C5_NoStrandedBuffer ==
    \A c \in Chats : message_buffer[c] # <<>> => Covered(c)

\* C6 (as claimed): when the handler of an item that met a full buffer
\* returns, the buffer holds exactly the new fragment.
C6_NewFragmentKept ==
    ev.type = "limit_done" =>
        /\ Len(message_buffer[ev.chat]) = 1
        /\ message_buffer[ev.chat][1].id = nextid[ev.chat] - 1

\* C7 (as claimed): no buffer ever holds more than MaxFragmentCount fragments.
C7_BufferBounded ==
    \A c \in Chats : Len(message_buffer[c]) <= MaxFragmentCount

\* C8 (as claimed): no fragment longer than MAX_BUFFER_SIZE is in a buffer
\* or in a snapshot handed to the dispatcher.
C8_NoOversizeFragment ==
    \A c \in Chats :
        /\ \A i \in 1..Len(message_buffer[c]) : message_buffer[c][i].len <= MAX_BUFFER_SIZE
        /\ \A tk \in Running(c) : \A i \in 1..Len(TaskRun(c, tk).snap) :
              TaskRun(c, tk).snap[i].len <= MAX_BUFFER_SIZE

\* C9 (as claimed, for the buffers C8 allows): the lengths of the fragments
\* of a buffer that are each within MAX_BUFFER_SIZE sum to at most
\* MAX_BUFFER_SIZE.
C9_TotalWithinLimit ==
    \A c \in Chats :
        (\A i \in 1..Len(message_buffer[c]) : message_buffer[c][i].len <= MAX_BUFFER_SIZE)
            => SumLen(message_buffer[c]) <= MAX_BUFFER_SIZE

\* The text holds the trigger keyword in some letter case.
HasKeywordAnyCase(kw) == kw \in {"!read", "!READ"}

\* C10: a fragment holding the trigger keyword in any letter case is never
\* put on a timer; the handler that accepted it either has it in a batch
\* or queues for the lock with it in the buffer; and when that handler
\* returns the fragment is in a batch.
C10_KeywordDispatchesNow ==
    /\ ev.type = "accept_timer" => ~HasKeywordAnyCase(arrivals[ev.chat][ev.id].kw)
    /\ \A c \in Chats :
          (h.chat = c /\ h.frag # 0 /\ HasKeywordAnyCase(arrivals[c][h.frag].kw)) =>
              \/ BatchOf(c, h.frag) # 0
              \/ h.pc = "wait" /\ InBuffer(c, h.frag)
    /\ (ev.type = "done" /\ ev.id # 0 /\ HasKeywordAnyCase(arrivals[ev.chat][ev.id].kw)) =>
          (BatchOf(ev.chat, ev.id) # 0 /\ ~InBuffer(ev.chat, ev.id))

\* C10 witness: a handler returned after an upper-case keyword fragment,
\* which arrived less than the debounce delay after the previous message,
\* went out in a batch.
C10_Witness ==
    /\ ev.type = "done" /\ ev.id > 1
    /\ arrivals[ev.chat][ev.id].kw = "!READ"
    /\ arrivals[ev.chat][ev.id].diff < Delay
    /\ BatchOf(ev.chat, ev.id) # 0

\* The timers of c that captured the conversation's last message time.
TimersOfLast(c) == {k \in TimerIds : timers[c][k].captured = last_message_time[c]}

\* C11: a fragment accepted more than the debounce delay after the
\* conversation's last message is dispatched by its own handler and gets no
\* timer; a fragment accepted at most the delay after it, without keyword,
\* stays in the buffer undispatched and gets exactly one timer, asleep for
\* the full delay.
C11_IdleOrTimer ==
    /\ ev.type = "accept_now" =>
          /\ arrivals[ev.chat][ev.id].diff > Delay
                \/ HasKeywordAnyCase(arrivals[ev.chat][ev.id].kw)
          /\ TimersOfLast(ev.chat) = {}
          /\ h.chat = ev.chat /\ h.frag = ev.id
          /\ \/ h.pc = "run" /\ BatchOf(ev.chat, ev.id) = Len(batches[ev.chat])
             \/ h.pc = "wait" /\ InBuffer(ev.chat, ev.id)
    /\ ev.type = "accept_timer" =>
          /\ arrivals[ev.chat][ev.id].diff <= Delay
          /\ ~HasKeywordAnyCase(arrivals[ev.chat][ev.id].kw)
          /\ InBuffer(ev.chat, ev.id) /\ BatchOf(ev.chat, ev.id) = 0
          /\ Cardinality(TimersOfLast(ev.chat)) = 1
          /\ \A k \in TimersOfLast(ev.chat) :
                /\ timers[ev.chat][k].pc = "sleep"
                /\ timers[ev.chat][k].wake = now + Delay
                /\ delayed_task[ev.chat] = k
          /\ h.pc = "idle"

\* C11 witness: a fragment without keyword, accepted more than the delay
\* after the previous message, is being dispatched by its handler.
C11_Witness ==
    /\ ev.type = "accept_now"
    /\ arrivals[ev.chat][ev.id].diff > Delay
    /\ arrivals[ev.chat][ev.id].kw = "none"
    /\ h.pc = "run"

\* The snapshot holds a fragment under the OCR or the link tag.
HasOcrOrLink(snap) == \E i \in 1..Len(snap) : snap[i].tag \in {"OCR: ", "Link: "}

\* Length of the fragments' texts joined by single spaces.
RECURSIVE JoinedLen(_)
JoinedLen(snap) ==
    IF snap = <<>> THEN 0
    ELSE IF Len(snap) = 1 THEN TextLen(snap[1])
    ELSE TextLen(Head(snap)) + 1 + JoinedLen(Tail(snap))

Converting(c) ==
    {tk \in Running(c) : TaskRun(c, tk).phase \in {"conv", "convx"}}

\* C12 (as claimed): a conversion made for a batch without OCR and link
\* fragments takes all the batch's fragments, joined by single spaces.
C12_OneJoinedConversion ==
    \A c \in Chats : \A tk \in Converting(c) :
        ~HasOcrOrLink(TaskRun(c, tk).snap) =>
            ConvInput(TaskRun(c, tk)) =
                [ids |-> Ids(TaskRun(c, tk).snap), len |-> JoinedLen(TaskRun(c, tk).snap)]

\* The step changes what task tk does for conversation c.
Moves(c, tk) == TaskPc(c, tk)' # TaskPc(c, tk) \/ TaskRun(c, tk)' # TaskRun(c, tk)

\* C13 (as claimed): in a batch that holds an OCR or a link fragment, every
\* fragment the run comes to gets a conversion call of its own: unless one
\* of its replies raises, the run leaves the point before a conversion only
\* by making the conversion call for the fragment it is at.
C13_EachFragmentConverted ==
    [][\A c \in Chats : \A tk \in Tasks :
          ( /\ TaskPc(c, tk) = "run"
            /\ TaskRun(c, tk).phase = "pre"
            /\ HasOcrOrLink(TaskRun(c, tk).snap)
            /\ Moves(c, tk)
            /\ ev'.res # "reply_raised" )
          => /\ TaskPc(c, tk)' = "run"
             /\ TaskRun(c, tk)' = [TaskRun(c, tk) EXCEPT !.phase = "conv"]
             /\ ConvInput(TaskRun(c, tk)').ids = <<TaskRun(c, tk).snap[TaskRun(c, tk).idx].id>>]_vars

C15_ConversionBounded == ev.res # "ok_late"

\* C16 (as claimed): OCR is started for an image without caption only
\* when every buffered fragment is an OCR fragment, and the image is
\* suppressed only when some buffered fragment is not.
C16_OcrOnlyWithoutText ==
    /\ ev.type = "ocr" =>
          \A i \in 1..Len(message_buffer[ev.chat]) : message_buffer[ev.chat][i].src = "ocr"
    /\ ev.type = "suppressed" =>
          \E i \in 1..Len(message_buffer[ev.chat]) : message_buffer[ev.chat][i].src # "ocr"

\* The buffer holds a fragment that is plain text, a caption or link text.
HasFreeText(buf) == \E i \in 1..Len(buf) : buf[i].src # "ocr"

\* The handler of an item of the given kind takes its last step.
Returns(kind) == h.ret = kind /\ h.pc # "idle" /\ h'.pc = "idle"

\* C17 (as claimed): the handler of a text with a URL that is no video
\* leaves the buffer as it is when the buffer holds free text, and otherwise
\* has appended a link fragment (still buffered, or taken into a batch).
C17_LinkSuppressedOrAppended ==
    [][Returns("link") =>
          IF HasFreeText(message_buffer[h.chat])
          THEN message_buffer'[h.chat] = message_buffer[h.chat]
          ELSE \/ \E i \in 1..Len(message_buffer'[h.chat]) :
                     message_buffer'[h.chat][i].tag = "Link: "
               \/ Len(batches'[h.chat]) > Len(batches[h.chat])]_vars

\* C18 (as claimed): the handler of a video URL leaves the buffer as it is.
C18_VideoLeavesBuffer ==
    [][Returns("video") => message_buffer'[h.chat] = message_buffer[h.chat]]_vars

\* C20 (as claimed): when the handling of an item has ended in an
\* unexpected error, the error was caught in the handler and the buffer of
\* the conversation is empty.
C20_ErrorClearsBuffer ==
    ev.type \in {"error_clear", "error_escaped", "ebook_raised"} =>
        /\ ev.type # "error_escaped"
        /\ message_buffer[ev.chat] = <<>>

\* ------------------------------------------------------------- wire tags
\* The strings of the tagging are modelled character by character: a Python
\* string is the sequence of its characters.  The round trip is checked
\* under SpecTags, which draws a kind and a content, prefixes the content as
\* _handle_content does and extracts the text as the dispatcher does; ev
\* carries the strings, the other variables keep their initial values.
MaxContentLen == 2

Kinds == {"text", "caption", "ocr", "link"}

\* The prefix _handle_content puts before the content (bot.py:339, 346, 353, 370).
TagOf(kind) ==
    CASE kind = "link" -> <<"L", "i", "n", "k", ":", " ">>
      [] kind = "ocr" -> <<"O", "C", "R", ":", " ">>
      [] kind = "caption" -> <<"C", "a", "p", "t", "i", "o", "n", ":", " ">>
      [] OTHER -> <<>>

\* str.startswith
StartsWith(s, p) == Len(s) >= Len(p) /\ SubSeq(s, 1, Len(p)) = p

\* The slice s[k:]
SliceFrom(s, k) == SubSeq(s, k + 1, Len(s))

\* not message.strip()   (bot.py:92)
IsBlank(s) == \A i \in 1..Len(s) : s[i] = " "

\* bot.py:96-108: the text the dispatcher converts for a buffered message.
ExtractText(message) ==
    IF StartsWith(message, TagOf("link")) THEN SliceFrom(message, 6)
    ELSE IF StartsWith(message, TagOf("ocr")) THEN SliceFrom(message, 5)
    ELSE IF StartsWith(message, TagOf("caption")) THEN SliceFrom(message, 8)
    ELSE message

\* The contents drawn: nothing or a tag string, then up to MaxContentLen
\* characters, a letter or a space each.
Bodies == UNION {[1..n -> {"a", " "}] : n \in 0..MaxContentLen}
Contents == {p \o b : p \in {<<>>} \cup {TagOf(k) : k \in Kinds}, b \in Bodies}

TagEvent(type, kind, content, message, text) ==
    [type |-> type, kind |-> kind, content |-> content, message |-> message,
     text |-> text]

InitTags ==
    /\ now = 0
    /\ nitems = 0
    /\ message_buffer = [c \in Chats |-> <<>>]
    /\ last_message_time = [c \in Chats |-> NoTime]
    /\ processing_locks = [c \in Chats |-> NoLock]
    /\ delayed_task = [c \in Chats |-> "none"]
    /\ timers = [c \in Chats |-> [k \in TimerIds |-> FreeTimer]]
    /\ h = IdleHandler
    /\ nextid = [c \in Chats |-> 1]
    /\ batches = [c \in Chats |-> <<>>]
    /\ arrivals = [c \in Chats |-> <<>>]
    /\ lastAccepted = [c \in Chats |-> FALSE]
    /\ \E kind \in Kinds, content \in Contents :
           ev = TagEvent("content", kind, content, <<>>, <<>>)

TagsFrame == UNCHANGED <<now, nitems, message_buffer, last_message_time,
                         processing_locks, delayed_task, timers, h, nextid,
                         batches, arrivals, lastAccepted>>

\* bot.py:242-249, 339-370: the content with its prefix is what
\* _handle_content returns; an empty string is not appended.
PrefixContent ==
    /\ ev.type = "content"
    /\ LET message == TagOf(ev.kind) \o ev.content
       IN ev' = [ev EXCEPT !.type = IF message = <<>> THEN "dropped" ELSE "buffered",
                           !.message = message]
    /\ TagsFrame

\* bot.py:91-108: the dispatcher skips a blank message and extracts the
\* text of any other.
Extract ==
    /\ ev.type = "buffered"
    /\ ev' = IF IsBlank(ev.message)
             THEN [ev EXCEPT !.type = "skipped"]
             ELSE [ev EXCEPT !.type = "extracted", !.text = ExtractText(ev.message)]
    /\ TagsFrame

NextTags ==
    \/ PrefixContent
    \/ Extract

SpecTags == InitTags /\ [][NextTags]_vars

\* C19 (as claimed): the text the dispatcher extracts from a buffered
\* message is the content the message was made of, whatever the kind and
\* the content.
C19_TagRoundTrip == ev.type = "extracted" => ev.text = ev.content

\* ------------------------------------------------------------- properties (continued)
\* C21 (as claimed): a step that appends nothing to conversation c and
\* schedules no timer for it leaves the value its pending timer compares
\* against unchanged: a sleeping timer that was valid and is left in place
\* is still valid.
C21_NoTimerNoInvalidation ==
    [][\A c \in Chats : \A k \in TimerIds :
          ( /\ timers[c][k].pc = "sleep"
            /\ TimerValid(c, timers[c][k])
            /\ timers'[c] = timers[c]
            /\ nextid'[c] = nextid[c] )
          => last_message_time'[c] = timers[c][k].captured]_vars

\* C22: conversions follow the arrival order.  Every snapshot keeps the
\* order of the appends, every fragment of an earlier snapshot arrived before
\* every fragment of a later one, and a run in progress works on the latest
\* snapshot of its conversation, message by message from the first: no run
\* converts a fragment after a later one was converted.
C22_ArrivalOrder ==
    \A c \in Chats :
        /\ InArrivalOrder(c)
        /\ \A b1, b2 \in 1..Len(batches[c]) :
              b1 < b2 => \A i \in 1..Len(batches[c][b1]), j \in 1..Len(batches[c][b2]) :
                            batches[c][b1][i] < batches[c][b2][j]
        /\ \A tk \in Running(c) :
              /\ Ids(TaskRun(c, tk).snap) = batches[c][Len(batches[c])]
              /\ TaskRun(c, tk).idx \in 1..Len(TaskRun(c, tk).snap)

\* C22 witness: the second message of a conversation's second batch is
\* being converted.
C22_Witness ==
    \E c \in Chats : \E tk \in Converting(c) :
        Len(batches[c]) >= 2 /\ TaskRun(c, tk).idx = 2

C24_OtherConversationsUntouched ==
    [][/\ \A b \in Chats :
             b # ev'.chat =>
                 /\ message_buffer'[b] = message_buffer[b]
                 /\ last_message_time'[b] = last_message_time[b]
                 /\ timers'[b] = timers[b]
                 /\ delayed_task'[b] = delayed_task[b]
                 /\ processing_locks'[b] = processing_locks[b]
       /\ \A c \in Chats :
             ("h" \in Range(processing_locks'[c].waiters) \/ processing_locks'[c].holder = "h")
                 => h'.chat = c]_vars

\* C24 witness: the buffer of the first conversation has just been cleared
\* after an error while the second has a fragment and a timer pending.
C24_Witness ==
    /\ ev.type = "error_clear" /\ ev.chat = "c1"
    /\ message_buffer["c2"] # <<>>
    /\ \E k \in TimerIds : timers["c2"][k].pc = "sleep"

\* C25 (as claimed): a snapshot that holds an ebook part holds nothing else.
C25_PartBatchedAlone ==
    \A c \in Chats : \A b \in 1..Len(batches[c]) :
        (\E i \in 1..Len(batches[c][b]) : arrivals[c][batches[c][b][i]].src = "part")
            => Len(batches[c][b]) = 1

\* ------------------------------------------------------------- OCR results
\* What becomes of an image's OCR result is checked under SpecOcr, which
\* draws what the OCR service does with the image and follows the result
\* through process_image, _handle_content and the append of handle_message.
\* Strings are sequences of characters as above; ev carries them, the other
\* variables keep their initial values.

\* "Sorry, I couldn't process this image. Please try again with a clearer
\* image."   (ocr.py:39)
Apology ==
    <<"S", "o", "r", "r", "y", ",", " ", "I", " ", "c", "o", "u", "l", "d", "n", "'", "t", " ",
      "p", "r", "o", "c", "e", "s", "s", " ", "t", "h", "i", "s", " ", "i", "m", "a", "g", "e", ".", " ",
      "P", "l", "e", "a", "s", "e", " ", "t", "r", "y", " ", "a", "g", "a", "i", "n", " ",
      "w", "i", "t", "h", " ", "a", " ", "c", "l", "e", "a", "r", "e", "r", " ",
      "i", "m", "a", "g", "e", ".">>

\* re.sub(r'\s+', ' ', text): of several spaces in a row the first is kept.
RECURSIVE Collapse(_)
Collapse(s) ==
    IF Len(s) < 2 THEN s
    ELSE IF s[1] = " " /\ s[2] = " " THEN Collapse(Tail(s))
    ELSE <<s[1]>> \o Collapse(Tail(s))

\* str.strip()
RECURSIVE Strip(_)
Strip(s) ==
    IF s = <<>> THEN s
    ELSE IF s[1] = " " THEN Strip(Tail(s))
    ELSE IF s[Len(s)] = " " THEN Strip(SubSeq(s, 1, Len(s) - 1))
    ELSE s

\* _clean_text (bot.py:373-383): the text is one paragraph once its
\* whitespace is collapsed.
CleanText(s) == Strip(Collapse(s))

\* What the OCR service does with the image (ocr_service.py:120-162): it
\* finds no text region, it finds regions whose texts joined are the given
\* string, or it raises.
OcrServiceResults ==
    {[kind |-> "none", text |-> <<>>], [kind |-> "raised", text |-> <<>>]}
        \cup {[kind |-> "text", text |-> t] : t \in Contents}

OcrEvent(type, service, ocr_text, content, buffer) ==
    [type |-> type, service |-> service, ocr_text |-> ocr_text, content |-> content,
     buffer |-> buffer]

InitOcr ==
    /\ now = 0
    /\ nitems = 0
    /\ message_buffer = [c \in Chats |-> <<>>]
    /\ last_message_time = [c \in Chats |-> NoTime]
    /\ processing_locks = [c \in Chats |-> NoLock]
    /\ delayed_task = [c \in Chats |-> "none"]
    /\ timers = [c \in Chats |-> [k \in TimerIds |-> FreeTimer]]
    /\ h = IdleHandler
    /\ nextid = [c \in Chats |-> 1]
    /\ batches = [c \in Chats |-> <<>>]
    /\ arrivals = [c \in Chats |-> <<>>]
    /\ lastAccepted = [c \in Chats |-> FALSE]
    /\ \E service \in OcrServiceResults :
           ev = OcrEvent("image", service, <<>>, <<>>, <<>>)

\* OCRProcessor.process_image (ocr.py:19-39)
ProcessImage ==
    /\ ev.type = "image"
    /\ ev' = [ev EXCEPT !.type = "processed",
                        !.ocr_text = IF ev.service.kind = "raised" THEN Apology
                                     ELSE IF ev.service.kind = "none" THEN <<>>
                                     ELSE ev.service.text]
    /\ TagsFrame

\* bot.py:367-370: the text is cleaned and returned under the OCR tag, or
\* None (here the empty string) is returned.
OcrContent ==
    /\ ev.type = "processed"
    /\ LET cleaned_ocr == IF ev.ocr_text # <<>> THEN CleanText(ev.ocr_text) ELSE <<>>
       IN ev' = [ev EXCEPT !.type = "returned",
                           !.content = IF cleaned_ocr # <<>>
                                       THEN TagOf("ocr") \o cleaned_ocr ELSE <<>>]
    /\ TagsFrame

\* bot.py:242-249: a content that is not empty is appended (none of these
\* is longer than MAX_BUFFER_SIZE).
AppendContent ==
    /\ ev.type = "returned"
    /\ ev' = [ev EXCEPT !.type = "handled",
                        !.buffer = IF ev.content # <<>> THEN <<ev.content>> ELSE <<>>]
    /\ TagsFrame

NextOcr ==
    \/ ProcessImage
    \/ OcrContent
    \/ AppendContent

SpecOcr == InitOcr /\ [][NextOcr]_vars

\* C26 (as claimed): when the OCR of an image found no text or failed,
\* nothing is appended for the image.
C26_NoFragmentFromFailedOcr ==
    (ev.type = "handled" /\ ev.service.kind \in {"none", "raised"}) => ev.buffer = <<>>

\* ------------------------------------------------------------- literal text
\* For a text message without URL and for a photo with a caption,
\* handle_message runs from its start to the append without suspending
\* (bot.py:203-249, 344-353), so what it does is a function of the message
\* and of the buffer.  SpecLiteral draws both and applies it; ev carries
\* them, the other variables keep their initial values.

\* The message: the chat type, text or photo with caption, whether the text
\* (the caption) names the bot, and the length of the cleaned content.
LiteralItems ==
    [message_type : {"private", "group"}, kind : {"text", "photo"},
     mention : BOOLEAN, len : {0, 5, MAX_BUFFER_SIZE, MAX_BUFFER_SIZE + 1}]

\* The buffer, by the wire tags of its messages.
RECURSIVE TagSeqs(_)
TagSeqs(n) ==
    IF n = 0 THEN {<<>>}
    ELSE TagSeqs(n - 1) \cup
         {Append(q, t) : q \in {x \in TagSeqs(n - 1) : Len(x) = n - 1},
                         t \in {"", "OCR: ", "Caption: "}}

LiteralEvent(type, item, buffer, after) ==
    [type |-> type, item |-> item, buffer |-> buffer, after |-> after]

InitLiteral ==
    /\ now = 0
    /\ nitems = 0
    /\ message_buffer = [c \in Chats |-> <<>>]
    /\ last_message_time = [c \in Chats |-> NoTime]
    /\ processing_locks = [c \in Chats |-> NoLock]
    /\ delayed_task = [c \in Chats |-> "none"]
    /\ timers = [c \in Chats |-> [k \in TimerIds |-> FreeTimer]]
    /\ h = IdleHandler
    /\ nextid = [c \in Chats |-> 1]
    /\ batches = [c \in Chats |-> <<>>]
    /\ arrivals = [c \in Chats |-> <<>>]
    /\ lastAccepted = [c \in Chats |-> FALSE]
    /\ \E item \in LiteralItems, buffer \in TagSeqs(MaxFragmentCount) :
           ev = LiteralEvent("item", item, buffer, buffer)

\* The content _handle_content returns (bot.py:344-346, 349-353), as its
\* wire tag and its length; for a text, update.message.caption is None and
\* for a photo update.message.text is.
LiteralContent(item) ==
    IF item.kind = "text" THEN [tag |-> "", len |-> item.len]
    ELSE [tag |-> "Caption: ", len |-> Len(TagOf("caption")) + item.len]

\* bot.py:233-249 for the message.
HandleLiteral ==
    /\ ev.type = "item"
    /\ LET item == ev.item
           content == LiteralContent(item)
       IN ev' =
           IF item.message_type = "group" /\ (item.kind # "text" \/ ~item.mention)
           THEN [ev EXCEPT !.type = "unaddressed"]
           ELSE IF Len(ev.buffer) >= MaxFragmentCount
           THEN [ev EXCEPT !.type = "limit"]
           ELSE IF content.len = 0
           THEN [ev EXCEPT !.type = "empty"]
           ELSE IF TooLong(content.len)
           THEN [ev EXCEPT !.type = "rejected"]
           ELSE [ev EXCEPT !.type = "appended", !.after = Append(ev.buffer, content.tag)]
    /\ TagsFrame

NextLiteral == HandleLiteral

SpecLiteral == InitLiteral /\ [][NextLiteral]_vars

\* The message is one the bot is spoken to with: any message of a private
\* chat, a group message that names the bot.
Addressed(item) == item.message_type = "private" \/ item.mention

\* C27 (as claimed): a text or a caption the bot is addressed with, whose
\* cleaned content is not empty and not longer than MAX_BUFFER_SIZE, is
\* appended under its tag when the buffer is not full, whatever the buffer
\* holds.
C27_LiteralTextAppended ==
    ( /\ ev.type # "item"
      /\ Addressed(ev.item)
      /\ ev.item.len > 0 /\ ev.item.len <= MAX_BUFFER_SIZE
      /\ Len(ev.buffer) < MaxFragmentCount )
    => /\ ev.type = "appended"
       /\ ev.after = Append(ev.buffer, IF ev.item.kind = "text" THEN "" ELSE "Caption: ")

\* ------------------------------------------------------------- two timeouts
\* One conversation that receives text messages over two timeouts: long
\* enough for a timer's dispatch to be converting while a second timer and
\* then an immediate dispatch queue for the lock behind it (bot.py:86).
Horizon == 2 * Delay

LateTick ==
    /\ AtAwait
    /\ now < Horizon
    /\ now' = now + 1
    /\ ev' = Event("tick", "none", 0)
    /\ UNCHANGED <<nitems, message_buffer, last_message_time, processing_locks,
                   delayed_task, timers, h, nextid, batches, arrivals, lastAccepted>>

NextLate ==
    \/ \E x \in TextInputs("c1") : HandleText("c1", x[1], x[2], x[3])
    \/ LimitDispatch
    \/ \E tk \in Tasks : RunPre("c1", tk)
    \/ \E tk \in Tasks : RunErr("c1", tk)
    \/ \E tk \in Tasks : \E res \in ConvOutcomes("c1") : RunConv("c1", tk, res)
    \/ \E tk \in Tasks : Granted("c1", tk)
    \/ \E k \in TimerIds : TimerFire("c1", k)
    \/ LateTick

SpecLate == Init /\ [][NextLate]_vars

\* C28: a run that finds the buffer empty converts nothing and changes
\* nothing.  A timer whose check of bot.py:387 passes on an empty buffer
\* ends at the check of bot.py:83; a task woken with the lock on an empty
\* buffer takes an empty snapshot, ends and gives up the lock.  Neither
\* enters the loop, records a batch, or touches the buffer or the last
\* message time.
C28_EmptyRunChangesNothing ==
    [][\A c \in Chats : \A tk \in Tasks :
          ( /\ message_buffer[c] = <<>>
            /\ nextid'[c] = nextid[c]
            /\ \/ /\ TaskPc(c, tk) = "wait" /\ processing_locks[c].holder = tk
                  /\ TaskPc(c, tk)' # "wait"
               \/ /\ tk # "h" /\ TaskPc(c, tk) = "sleep" /\ TimerValid(c, timers[c][tk])
                  /\ TaskPc(c, tk)' # "sleep" )
          => /\ TaskPc(c, tk)' \notin {"run", "wait"}
             /\ message_buffer'[c] = <<>>
             /\ batches'[c] = batches[c]
             /\ last_message_time'[c] = last_message_time[c]
             /\ processing_locks'[c].holder # tk]_vars

\* C28 witness: a task that queued for the lock has just been woken on a
\* buffer another run had emptied, and ended.
C28_Witness ==
    /\ ev.type \in {"timer_done", "done", "limit_done", "part_done"}
    /\ ev.res = "none"

\* ------------------------------------------------------------- convert_to_audio
\* convert_to_audio (text_to_speech.py:7-60) is a function of the text and
\* of what the file name, the edge-tts stream, the file write and the direct
\* save do.  SpecTts draws them and runs the function one stage at a time;
\* ev carries the call, the other variables keep their initial values.

\* What the stream of line 26 does: audio arrives, the stream ends without
\* audio, it raises an Exception, or the awaiting task is cancelled.
StreamOutcomes == {"audio", "silent", "error", "cancelled"}
\* communicate.save (line 46)
SaveOutcomes == {"saved", "error", "cancelled"}
\* What the message of a raised Exception contains (lines 55-57).
ErrorMessages == {"Status code: 429", "Status code: 413", "other"}

ConvertInputs ==
    [text : Bodies, name : {"ok", "error"}, stream : StreamOutcomes,
     write : {"ok", "error"}, save : SaveOutcomes, msg : ErrorMessages]

NoResult == [ok |-> FALSE, value |-> "none"]
TtsEvent(type, input, result, error) ==
    [type |-> type, input |-> input, result |-> result, error |-> error]

InitTts ==
    /\ now = 0
    /\ nitems = 0
    /\ message_buffer = [c \in Chats |-> <<>>]
    /\ last_message_time = [c \in Chats |-> NoTime]
    /\ processing_locks = [c \in Chats |-> NoLock]
    /\ delayed_task = [c \in Chats |-> "none"]
    /\ timers = [c \in Chats |-> [k \in TimerIds |-> FreeTimer]]
    /\ h = IdleHandler
    /\ nextid = [c \in Chats |-> 1]
    /\ batches = [c \in Chats |-> <<>>]
    /\ arrivals = [c \in Chats |-> <<>>]
    /\ lastAccepted = [c \in Chats |-> FALSE]
    /\ \E input \in ConvertInputs : ev = TtsEvent("call", input, NoResult, "none")

Returned(e, ok, value) ==
    [e EXCEPT !.type = "returned", !.result = [ok |-> ok, value |-> value]]

\* An exception that leaves the function.
RaisedAlways(e, class, msg) == [e EXCEPT !.type = "raised", !.error = class]

\* An exception raised inside the outer try (lines 52-60): an Exception is
\* turned into (False, reason); CancelledError is not an Exception and
\* leaves the function.
Raised(e, class, msg) ==
    IF class = "Exception" THEN
        Returned(e, FALSE,
                 IF msg = "Status code: 429"
                     THEN "Service is busy. Please try again in a few minutes."
                 ELSE IF msg = "Status code: 413"
                     THEN "Text is too long. Please try with a shorter section."
                 ELSE "Conversion error")
    ELSE [e EXCEPT !.type = "raised", !.error = class]

\* Lines 11-19: empty or whitespace-only text returns at once; the file
\* name is made and the Communicate object is built.
ConvertStart ==
    /\ ev.type = "call"
    /\ ev' = IF ev.input.text = <<>> \/ Strip(ev.input.text) = <<>>
                 THEN Returned(ev, FALSE, "Empty text provided")
             ELSE IF ev.input.name = "error"
                 THEN Raised(ev, "Exception", ev.input.msg)
             ELSE [ev EXCEPT !.type = "streaming"]
    /\ TagsFrame

\* Lines 21-42: the stream is read and its audio written; no audio and a
\* failed write are Exceptions that the inner handler of line 42 takes.
ConvertStream ==
    /\ ev.type = "streaming"
    /\ ev' = IF ev.input.stream = "cancelled"
                 THEN Raised(ev, "CancelledError", "other")
             ELSE IF ev.input.stream = "audio" /\ ev.input.write = "ok"
                 THEN Returned(ev, TRUE, "temp_audio_path")
             ELSE [ev EXCEPT !.type = "fallback"]
    /\ TagsFrame

\* Lines 43-50: the direct save; its Exception is raised again, to the
\* outer handler.
ConvertSave ==
    /\ ev.type = "fallback"
    /\ ev' = IF ev.input.save = "saved" THEN Returned(ev, TRUE, "temp_audio_path")
             ELSE IF ev.input.save = "error"
                 THEN Raised(ev, "Exception", ev.input.msg)
             ELSE Raised(ev, "CancelledError", "other")
    /\ TagsFrame

NextTts ==
    \/ ConvertStart
    \/ ConvertStream
    \/ ConvertSave

SpecTts == InitTts /\ [][NextTts]_vars

StreamFailed(input) ==
    \/ input.stream \in {"silent", "error"}
    \/ input.stream = "audio" /\ input.write = "error"

\* C29: convert_to_audio ends with (True, path) or (False, reason) and no
\* Exception leaves it: blank text gives (False, reason), a failed stream
\* followed by a successful direct save gives (True, path), and a failed
\* stream followed by a failed save gives (False, reason).
C29_ConvertReturnsPair ==
    /\ ev.type = "raised" => ev.error # "Exception"
    /\ ev.type = "returned" =>
          /\ ev.result.ok => ev.result.value = "temp_audio_path"
          /\ ~ev.result.ok => ev.result.value \notin {"temp_audio_path", "none"}
          /\ IsBlank(ev.input.text) => ~ev.result.ok
          /\ ( /\ ~IsBlank(ev.input.text) /\ ev.input.name = "ok"
               /\ StreamFailed(ev.input) )
             => (ev.result.ok <=> ev.input.save = "saved")
    /\ ev.type \in {"streaming", "fallback"} => ~IsBlank(ev.input.text)

\* C29 witness: the stream failed, the direct save failed with an
\* Exception, and the call returned (False, reason).
C29_Witness ==
    /\ ev.type = "returned"
    /\ StreamFailed(ev.input)
    /\ ev.input.save = "error"
    /\ ~IsBlank(ev.input.text) /\ ev.input.name = "ok"
    /\ ~ev.result.ok

\* ------------------------------------------------------------- properties (snapshots)
\* C30: no fragment is dispatched twice.  Every fragment identifier occurs
\* in at most one snapshot of its conversation, and at most once in it,
\* and a fragment that is in a snapshot is no longer in the buffer.
C30_NoFragmentTwice ==
    \A c \in Chats :
        /\ \A i, j \in 1..Len(batches[c]) :
              \A m \in 1..Len(batches[c][i]), n \in 1..Len(batches[c][j]) :
                  batches[c][i][m] = batches[c][j][n] => (i = j /\ m = n)
        /\ \A i \in 1..Len(batches[c]) : \A m \in 1..Len(batches[c][i]) :
              \A k \in 1..Len(message_buffer[c]) :
                  message_buffer[c][k].id # batches[c][i][m]

\* C30 witness: a conversation has had two snapshots, the later one taken
\* by a task that had queued for the lock while fragments were in the
\* buffer, and that task is now converting.
C30_Witness ==
    \E c \in Chats : \E tk \in Tasks :
        /\ Len(batches[c]) >= 2
        /\ ev.type = "granted" /\ ev.chat = c
        /\ TaskPc(c, tk) = "run"
        /\ Ids(TaskRun(c, tk).snap) = batches[c][Len(batches[c])]

\* ------------------------------------------------------------- properties (cancellation)
\* C31 (as claimed): the cancel made when a new fragment is put on a timer
\* (bot.py:257-260) never ends a dispatch run the cancelled task has
\* started: a timer task that is in a run before the fragment is accepted
\* is in the same run, with the same snapshot, afterwards.
C31_CancelKeepsRun ==
    [][\A c \in Chats : \A k \in TimerIds :
          ( /\ timers[c][k].pc = "run"
            /\ ev'.type = "accept_timer" /\ ev'.chat = c )
          => /\ timers'[c][k].pc = "run"
             /\ timers'[c][k].run.snap = timers[c][k].run.snap]_vars

\* C32: a conversation never has two pending timers that would pass the
\* check of bot.py:387: of the timer tasks still in their sleep, at most one
\* has captured the conversation's present last message time.
C32_OneValidTimer ==
    \A c \in Chats :
        Cardinality({k \in TimerIds : /\ timers[c][k].pc = "sleep"
                                      /\ timers[c][k].captured = last_message_time[c]}) <= 1

\* C32 witness: a conversation has a sleeping timer that would pass the
\* check while an earlier timer task of it is still alive, in a dispatch
\* run it started before the new fragment came.
C32_Witness ==
    \E c \in Chats : \E k, j \in TimerIds :
        /\ k # j
        /\ timers[c][k].pc = "sleep" /\ TimerValid(c, timers[c][k])
        /\ timers[c][j].pc = "run"

\* C33 (as claimed): in no buffer does an OCR fragment stand behind a
\* fragment of plain text, a caption or link text.
C33_NoOcrBehindText ==
    \A c \in Chats : \A i, j \in 1..Len(message_buffer[c]) :
        i < j => ~( /\ message_buffer[c][j].src = "ocr"
                    /\ message_buffer[c][i].src \in {"text", "caption", "link"} )

\* C34 (as claimed): the handler of a text with a URL that is no video
\* returns without the video test having raised, with every fragment that
\* was pending still pending, and with a link fragment as the conversation's
\* latest appended fragment.
C34_LinkFragmentAppended ==
    [][Returns("link") =>
          /\ h.pc # "err"
          /\ \A i \in 1..Len(message_buffer[h.chat]) :
                \E j \in 1..Len(message_buffer'[h.chat]) :
                    message_buffer'[h.chat][j] = message_buffer[h.chat][i]
          /\ arrivals'[h.chat] # <<>>
          /\ arrivals'[h.chat][Len(arrivals'[h.chat])].src = "link"]_vars

\* ------------------------------------------------------------- _split_content
\* _split_content (bot.py:473-496) is a function of the content and of
\* max_size.  SpecSplit draws both and runs the function a sentence at a
\* time; ev carries the call, the other variables keep their initial values.
\* A content is a sequence of characters: a letter, a full stop, a space.
MaxSplitLen == 5
MaxChunkSize == 3

SplitContents == UNION {[1..n -> {"a", ".", " "}] : n \in 0..MaxSplitLen}

\* The rest of s after its leading spaces (the \s+ of the pattern is greedy).
RECURSIVE DropSpaces(_)
DropSpaces(s) == IF s # <<>> /\ Head(s) = " " THEN DropSpaces(Tail(s)) ELSE s

\* re.split(r'(?<=[.!?])\s+', content)   (bot.py:480): cur is the sentence
\* read so far; a run of spaces that follows a full stop ends it.  A content
\* without such a run, the empty one included, is one sentence.
RECURSIVE ReSplit(_, _)
ReSplit(rest, cur) ==
    IF rest = <<>> THEN <<cur>>
    ELSE IF Head(rest) = " " /\ cur # <<>> /\ cur[Len(cur)] = "."
        THEN <<cur>> \o ReSplit(DropSpaces(rest), <<>>)
    ELSE ReSplit(Tail(rest), Append(cur, Head(rest)))

\* ' '.join(current_chunk)   (bot.py:486, 494)
RECURSIVE JoinSpace(_)
JoinSpace(list) ==
    IF list = <<>> THEN <<>>
    ELSE IF Len(list) = 1 THEN list[1]
    ELSE list[1] \o <<" ">> \o JoinSpace(Tail(list))

SplitEvent(type, content, max_size) ==
    [type |-> type, content |-> content, max_size |-> max_size,
     sentences |-> <<>>, i |-> 1,
     chunks |-> <<>>, current_chunk |-> <<>>, current_size |-> 0]

InitSplit ==
    /\ now = 0
    /\ nitems = 0
    /\ message_buffer = [c \in Chats |-> <<>>]
    /\ last_message_time = [c \in Chats |-> NoTime]
    /\ processing_locks = [c \in Chats |-> NoLock]
    /\ delayed_task = [c \in Chats |-> "none"]
    /\ timers = [c \in Chats |-> [k \in TimerIds |-> FreeTimer]]
    /\ h = IdleHandler
    /\ nextid = [c \in Chats |-> 1]
    /\ batches = [c \in Chats |-> <<>>]
    /\ arrivals = [c \in Chats |-> <<>>]
    /\ lastAccepted = [c \in Chats |-> FALSE]
    /\ \E content \in SplitContents : \E max_size \in 1..MaxChunkSize :
           ev = SplitEvent("call", content, max_size)

\* bot.py:475-480
SplitSentences ==
    /\ ev.type = "call"
    /\ ev' = [ev EXCEPT !.type = "loop", !.sentences = ReSplit(ev.content, <<>>)]
    /\ TagsFrame

AddSentenceLossy(e, sentence) ==
    IF e.current_size + Len(sentence) > e.max_size THEN
        [e EXCEPT !.current_chunk = <<sentence>>, !.current_size = Len(sentence)]
    ELSE
        [e EXCEPT !.current_chunk = Append(@, sentence), !.current_size = @ + Len(sentence)]

\* The body of the loop (bot.py:483-491).
AddSentence(e, sentence) ==
    IF e.current_size + Len(sentence) > e.max_size THEN
        [e EXCEPT !.chunks = IF e.current_chunk # <<>>
                             THEN Append(@, JoinSpace(e.current_chunk)) ELSE @,
                  !.current_chunk = <<sentence>>,
                  !.current_size = Len(sentence)]
    ELSE
        [e EXCEPT !.current_chunk = Append(@, sentence), !.current_size = @ + Len(sentence)]

\* for sentence in sentences   (bot.py:482)
SplitLoop ==
    /\ ev.type = "loop"
    /\ ev.i <= Len(ev.sentences)
    /\ ev' = [AddSentence(ev, ev.sentences[ev.i]) EXCEPT !.i = ev.i + 1]
    /\ TagsFrame

\* bot.py:493-496
SplitReturn ==
    /\ ev.type = "loop"
    /\ ev.i > Len(ev.sentences)
    /\ ev' = [ev EXCEPT !.type = "returned",
                        !.chunks = IF ev.current_chunk # <<>>
                                   THEN Append(@, JoinSpace(ev.current_chunk)) ELSE @]
    /\ TagsFrame

NextSplit ==
    \/ SplitSentences
    \/ SplitLoop
    \/ SplitReturn

SpecSplit == InitSplit /\ [][NextSplit]_vars

\* The content is text as _clean_text returns it (bot.py:422, 371-383): not
\* empty, no space at either end.
IsStripped(s) == s # <<>> /\ s[1] # " " /\ s[Len(s)] # " "

\* C35 (as claimed): when no sentence of the content is longer than
\* max_size, no returned chunk is longer than max_size.
C35_ChunksWithinMaxSize ==
    ( /\ ev.type = "returned"
      /\ IsStripped(ev.content)
      /\ \A k \in 1..Len(ev.sentences) : Len(ev.sentences[k]) <= ev.max_size )
    => \A n \in 1..Len(ev.chunks) : Len(ev.chunks[n]) <= ev.max_size

\* The sentences of the chunks, read chunk by chunk.
RECURSIVE SentencesOf(_)
SentencesOf(list) ==
    IF list = <<>> THEN <<>> ELSE ReSplit(Head(list), <<>>) \o SentencesOf(Tail(list))

\* C36 (as claimed): the sentences of the returned chunks, in order, are
\* the sentences of the content, and no returned chunk is empty.
C36_SplitKeepsSentences ==
    ev.type = "returned" =>
        /\ SentencesOf(ev.chunks) = ReSplit(ev.content, <<>>)
        /\ \A n \in 1..Len(ev.chunks) : ev.chunks[n] # <<>>

\* C36 (amended): the sentences of the returned chunks, in order, are the
\* sentences of the content; and when the content is not empty and has no
\* space at either end, as the stripped text _handle_ebook passes, no
\* returned chunk is empty.
C36_SplitKeepsSentencesOfText ==
    ev.type = "returned" =>
        /\ SentencesOf(ev.chunks) = ReSplit(ev.content, <<>>)
        /\ IsStripped(ev.content) => \A n \in 1..Len(ev.chunks) : ev.chunks[n] # <<>>

\* C36 witness: a stripped content of several sentences came back as more
\* than one chunk.
C36_Witness ==
    /\ ev.type = "returned"
    /\ IsStripped(ev.content)
    /\ Len(ev.sentences) >= 2
    /\ Len(ev.chunks) >= 2

====
